---- MODULE Spec2Model ----
(***************************************************************************)
(* A model of the stompest asynchronous STOMP client:                      *)
(*   - the correlation registry InFlightOperations / WaitingDeferred, as   *)
(*     used by the listeners and exercised by tests/async_util.py;         *)
(*   - the connection orchestrator Stomp of stompest/async/client.py;      *)
(*   - SubscriptionListener.onDisconnect of asynchronous/listener.py.      *)
(* Each part has its own specification over its own variables; the         *)
(* variables of the other parts stay at their initial values.              *)
(***************************************************************************)
EXTENDS Integers, Sequences, FiniteSets, TLC

VARIABLES
    \* ---- correlation registry (InFlightOperations) ----
    waiting,    \* InFlightOperations._waiting: key -> handle (0: key absent)
    hs,         \* handle -> state of the Deferred: called or not, and its result
    blk,        \* handle -> the `with op(key) as w:` block that owns it
    nextH,      \* the next handle to be constructed
    regCall,    \* the registry operation performed last and its outcome
    \* ---- connection orchestrator (Stomp) ----
    cli,        \* instance -> state of that Stomp object and of its peers
    \* ---- SubscriptionListener.onDisconnect ----
    sub,        \* state of one SubscriptionListener that is disconnecting
    \* ---- the other listeners (listener.py) ----
    lis         \* state of one HeartBeatListener, DisconnectListener, ...

rvars == <<waiting, hs, blk, nextH, regCall>>
vars == <<waiting, hs, blk, nextH, regCall, cli, sub, lis>>

(***************************************************************************)
(* Bounds of the model.                                                    *)
(***************************************************************************)
NumKeys == 1        \* correlation keys 1..NumKeys
MaxHandles == 2    \* handles constructed in one behaviour
MaxTimeout == 1     \* largest timeout handed to wait, in clock ticks

Keys == 1..NumKeys
Handles == 1..MaxHandles
NoHandle == 0

(***************************************************************************)
(* PART 1. The correlation registry.                                       *)
(*                                                                         *)
(* stompest.asynchronous.util is not among the sources; the registry is    *)
(* modelled from the specification (4.1), and from the behaviour that      *)
(* tests/async_util.py pins down where the two differ.                     *)
(***************************************************************************)

\* Results a Deferred can hold. "value": callback(x); the others are failures.
TimeoutErr == "TimeoutErr"      \* the `fail` argument of wait(timeout, fail)
BodyErr == "BodyErr"            \* RuntimeError('hi') raised in the block
ExtErr == "ExtErr"              \* w.errback(StompCancelledError('4711'))
Cancelled == "CancelledError"   \* w.cancel()
Failures == {TimeoutErr, BodyErr, ExtErr, Cancelled}

NoTimer == -1                   \* wait(timeout=None): no timer

FreshHandle == [called |-> FALSE, result |-> "none"]
NoBlock == [st |-> "none", key |-> 0, timer |-> NoTimer, got |-> "none"]

\* Deferred.callback / errback / cancel on handle h: the handle is completed
\* and a body suspended in h.wait() is resumed with the result at once.
complete(h, res) ==
    /\ hs' = [hs EXCEPT ![h] = [called |-> TRUE, result |-> res]]
    /\ blk' = [blk EXCEPT ![h] =
                 IF @.st = "waiting"
                 THEN [@ EXCEPT !.st = "running", !.timer = NoTimer, !.got = res]
                 ELSE @]

\* InFlightOperations.__setitem__ as a slip would have it: the new handle
\* silently replaces the one registered.
setitemOverwrite(k, kind) ==
    /\ nextH <= MaxHandles
    /\ waiting' = [waiting EXCEPT ![k] = nextH]
    /\ hs' = [hs EXCEPT ![nextH] = FreshHandle]
    /\ blk' = [blk EXCEPT ![nextH] = [NoBlock EXCEPT !.st = kind, !.key = k]]
    /\ nextH' = nextH + 1
    /\ regCall' = [op |-> "create", key |-> k, h |-> nextH, err |-> "none"]

\* InFlightOperations.__setitem__(key, value) with a handle constructed by the
\* caller: KeyError('... already in progress') when the key is registered.
\* kind = "direct": op[k] = w; kind = "running": entering `with op(k) as w`.
setitem(k, kind) ==
    /\ IF waiting[k] # NoHandle
       THEN /\ regCall' = [op |-> "create", key |-> k, h |-> NoHandle,
                           err |-> "AlreadyInProgress"]
            /\ UNCHANGED <<waiting, hs, blk, nextH>>
       ELSE /\ nextH <= MaxHandles
            /\ waiting' = [waiting EXCEPT ![k] = nextH]
            /\ hs' = [hs EXCEPT ![nextH] = FreshHandle]
            /\ blk' = [blk EXCEPT ![nextH] = [NoBlock EXCEPT !.st = kind, !.key = k]]
            /\ nextH' = nextH + 1
            /\ regCall' = [op |-> "create", key |-> k, h |-> nextH, err |-> "none"]

\* op[k] = w (test_dict_interface)
SetItem(k) == setitem(k, "direct") /\ UNCHANGED <<cli, sub, lis>>

\* op.pop(k) of an entry set with op[k] = w (test_dict_interface): KeyError
\* when the key is absent.
Pop(k) ==
    /\ IF waiting[k] = NoHandle THEN TRUE ELSE blk[waiting[k]].st = "direct"
    /\ IF waiting[k] = NoHandle
       THEN /\ regCall' = [op |-> "pop", key |-> k, h |-> NoHandle,
                           err |-> "NotInProgress"]
            /\ UNCHANGED <<waiting, hs, blk, nextH>>
       ELSE /\ regCall' = [op |-> "pop", key |-> k, h |-> waiting[k], err |-> "none"]
            /\ waiting' = [waiting EXCEPT ![k] = NoHandle]
            /\ blk' = [blk EXCEPT ![waiting[k]].st = "popped"]
            /\ UNCHANGED <<hs, nextH>>
    /\ UNCHANGED <<cli, sub, lis>>

\* Enter as a slip would have it: the registration replaces a live entry.
EnterOverwriting(k) == setitemOverwrite(k, "running") /\ UNCHANGED <<cli, sub, lis>>

\* `with op(key) as w:` is entered (InFlightOperations.__call__):
\* self[key] = waiting = WaitingDeferred().
Enter(k) == setitem(k, "running") /\ UNCHANGED <<cli, sub, lis>>

\* The timer of wait as a slip would have it: the expiry also removes the
\* entry from the registry.
expireRemoving(h) ==
    /\ complete(h, TimeoutErr)
    /\ waiting' = [waiting EXCEPT ![blk[h].key] = NoHandle]

\* The timer of WaitingDeferred.wait(timeout, fail) fires: self.errback(fail).
\* The registry is not touched: test_timeout finds the key still registered
\* inside the block after the wait has failed.
expire(h) ==
    /\ complete(h, TimeoutErr)
    /\ UNCHANGED waiting

\* WaitingDeferred.wait(timeout, fail) called in the body of the block.
\* On a handle already completed it returns (or raises) the result at once.
Wait(h, timeout) ==
    /\ blk[h].st = "running"
    /\ IF hs[h].called
       THEN blk' = [blk EXCEPT ![h].got = hs[h].result]
       ELSE blk' = [blk EXCEPT ![h].st = "waiting", ![h].timer = timeout]
    /\ regCall' = [op |-> "wait", key |-> blk[h].key, h |-> h, err |-> "none"]
    /\ UNCHANGED <<waiting, hs, nextH, cli, sub, lis>>

\* Expire as a slip would have it: the expiry removes the entry.
ExpireRemoving(h) ==
    /\ blk[h].st = "waiting"
    /\ blk[h].timer = 0
    /\ expireRemoving(h)
    /\ regCall' = [op |-> "expire", key |-> blk[h].key, h |-> h, err |-> TimeoutErr]
    /\ UNCHANGED <<nextH, cli, sub, lis>>

\* reactor.callLater(timeout, self.errback, fail) comes due.
Expire(h) ==
    /\ blk[h].st = "waiting"
    /\ blk[h].timer = 0
    /\ expire(h)
    /\ regCall' = [op |-> "expire", key |-> blk[h].key, h |-> h, err |-> TimeoutErr]
    /\ UNCHANGED <<nextH, cli, sub, lis>>

\* The clock advances by one tick; a timer that is due fires first.
RegTick ==
    /\ \E h \in Handles : blk[h].timer > 0
    /\ \A h \in Handles : blk[h].timer # 0
    /\ blk' = [h \in Handles |->
                 IF blk[h].timer > 0 THEN [blk[h] EXCEPT !.timer = @ - 1] ELSE blk[h]]
    /\ regCall' = [op |-> "tick", key |-> 0, h |-> NoHandle, err |-> "none"]
    /\ UNCHANGED <<waiting, hs, nextH, cli, sub, lis>>

\* Somebody else completes the handle: w.callback(4711), w.errback(e) or
\* w.cancel() (test_context_single), ReceiptListener.onReceipt.
Complete(h, res) ==
    /\ blk[h].st \in {"running", "waiting"}
    /\ ~hs[h].called
    /\ complete(h, res)
    /\ regCall' = [op |-> "complete", key |-> blk[h].key, h |-> h, err |-> "none"]
    /\ UNCHANGED <<waiting, nextH, cli, sub, lis>>

\* Leaving the block as a slip would have it: an exception skips the removal.
leaveLeaking(h, res) ==
    /\ hs' = [hs EXCEPT ![h] = IF @.called THEN @ ELSE [called |-> TRUE, result |-> res]]
    /\ blk' = [blk EXCEPT ![h].st = "left", ![h].got = res]
    /\ waiting' = IF res = "value"
                  THEN [waiting EXCEPT ![blk[h].key] = NoHandle]
                  ELSE waiting

\* InFlightOperations.__call__ after its yield: a handle not completed yet is
\* completed (callback(None) on a normal exit, errback(e) on an exception,
\* which is raised again), and finally: self.pop(key).
leave(h, res) ==
    /\ hs' = [hs EXCEPT ![h] = IF @.called THEN @ ELSE [called |-> TRUE, result |-> res]]
    /\ blk' = [blk EXCEPT ![h].st = "left", ![h].got = res]
    /\ waiting' = [waiting EXCEPT ![blk[h].key] = NoHandle]

\* The body of the block ends normally.
ExitNormal(h) ==
    /\ blk[h].st = "running"
    /\ leave(h, "value")
    /\ regCall' = [op |-> "exit", key |-> blk[h].key, h |-> h, err |-> "none"]
    /\ UNCHANGED <<nextH, cli, sub, lis>>

\* ExitRaise as a slip would have it: the removal is skipped on an exception.
ExitRaiseLeaking(h, e) ==
    /\ blk[h].st = "running"
    /\ e = BodyErr \/ e = blk[h].got
    /\ leaveLeaking(h, e)
    /\ regCall' = [op |-> "exit", key |-> blk[h].key, h |-> h, err |-> e]
    /\ UNCHANGED <<nextH, cli, sub, lis>>

\* The body of the block raises: its own RuntimeError, or the failure that
\* its wait has raised.
ExitRaise(h, e) ==
    /\ blk[h].st = "running"
    /\ e = BodyErr \/ e = blk[h].got
    /\ leave(h, e)
    /\ regCall' = [op |-> "exit", key |-> blk[h].key, h |-> h, err |-> e]
    /\ UNCHANGED <<nextH, cli, sub, lis>>

RegInit ==
    /\ waiting = [k \in Keys |-> NoHandle]
    /\ hs = [h \in Handles |-> FreshHandle]
    /\ blk = [h \in Handles |-> NoBlock]
    /\ nextH = 1
    /\ regCall = [op |-> "init", key |-> 0, h |-> NoHandle, err |-> "none"]

\* A SubscriptionListener after __init__ (lines 184-193), added to the
\* listeners of its connection: no handler is outstanding in self._messages
\* and no onDisconnect has been called; refused holds the message ids of the
\* MESSAGE frames the connection received without the listener.
NewListener ==
    [phase |-> "subscribed", registered |-> TRUE, refused |-> {},
     messages |-> {}, finished |-> {},
     timeout |-> 0, now |-> 0, order |-> <<>>, pos |-> 0, deadline |-> 0,
     result |-> "none", doneAt |-> 0]

\* ---- HeartBeatListener (listener.py lines 250-304); time in ticks ----

HBScale == 1      \* a tick is 200 / HBScale ms
HBSlack == 2      \* ticks the clock runs on after the server window

\* The negotiated heart-beat period of 1000 ms, in ticks.
HeartBeatPeriod == 5 * HBScale

\* HeartBeatListener.DEFAULT_THRESHOLDS (line 256) as fractions: 0.8 and 2.0.
DEFAULT_THRESHOLDS == [client |-> <<4, 5>>, server |-> <<2, 1>>]

Which == {"client", "server"}
NoBeat == -1

\* HeartBeatListener.__init__ (lines 258-260) on a connection that is not
\* connected yet: self._heartBeats = {}.
NewHeartBeat ==
    [connected |-> FALSE, now |-> 0,
     heartBeat |-> [w \in Which |-> 0],     \* session.clientHeartBeat, serverHeartBeat
     lastSent |-> 0, lastReceived |-> 0,    \* session.lastSent, lastReceived
     heartBeats |-> [w \in Which |-> NoBeat], \* self._heartBeats: due time of the callLater
     sent |-> 0,                            \* heart-beat frames sent
     disconnects |-> 0,                     \* calls of connection.disconnect(reason=...)
     last |-> "init"]

\* ---- DisconnectListener (listener.py lines 88-138) ----

\* DisconnectListener.__init__ (lines 90-91) on a connection whose session
\* keeps subscriptions to replay; nothing is set before onAdd.
NewDisconnectListener ==
    [registered |-> FALSE,
     disconnecting |-> FALSE,        \* self._disconnecting
     disconnectReason |-> "none",    \* self.__disconnectReason ("none": None)
     disconnected |-> "none",        \* connection.disconnected: none, pending, ok or the failure
     fired |-> 0,                    \* times connection.disconnected was fired
     replayLog |-> TRUE,             \* the session keeps subscriptions to replay
     closed |-> FALSE,               \* session.close was called
     asked |-> <<>>,                 \* the reasons onDisconnect was called with
     last |-> "init"]

\* ---- SubscriptionListener.onSubscribe (listener.py lines 222-229) ----

MaxSubscribes == 3      \* SUBSCRIBE frames the listener is told of

FrameIds == 1..MaxSubscribes
NoFrame == 0

\* SubscriptionListener.__init__ (lines 184-193): self._headers = None; the
\* headers of the SUBSCRIBE frames made so far are kept by frame, as _headers
\* refers to the headers of a frame.
NewSubscriptionListener ==
    [headers |-> NoFrame,                          \* self._headers: the frame it refers to
     frames |-> [f \in FrameIds |-> "unmade"],     \* frame -> its ack header
     nframes |-> 0,
     last |-> "init"]

\* ---- ReceiptListener (listener.py lines 140-169); time in ticks ----

MaxReceipts == 2           \* receipt ids 1..MaxReceipts
MaxReceiptTimeout == 1     \* largest timeout of the listener, in ticks

ReceiptIds == 1..MaxReceipts
NoReceipt == 0

\* A ReceiptListener after __init__ (lines 147-150): self._receipts is empty.
\* receipts[r] is the entry of receipt id r in self._receipts with the timer
\* of its wait, outcome[r] what the onSend that asked for r last came to,
\* call the hook called last and the error it raised.
NewReceiptListener ==
    [timeout |-> NoTimer,
     receipts |-> [r \in ReceiptIds |-> [st |-> "absent", timer |-> NoTimer]],
     outcome |-> [r \in ReceiptIds |-> "none"],
     call |-> [op |-> "init", key |-> NoReceipt, err |-> "none"]]

\* ---- SubscriptionListener.onMessage (listener.py lines 204-220) ----

MaxListenerMsgs == 2       \* MESSAGE frames the listener is told of

ListenerMsgs == 1..MaxListenerMsgs

\* The listener as far as onMessage reads it: self._ack, the ack header of
\* self._headers, and for every message-id the state of its handler, what
\* became of it and the ACK frames handed to connection.ack for it.
NewMessageListener ==
    [ack |-> TRUE, mode |-> "auto",
     msgs |-> [m \in ListenerMsgs |-> [st |-> "none", outcome |-> "none", acks |-> 0]],
     last |-> "init"]

NewListeners ==
    [hb |-> NewHeartBeat, dl |-> NewDisconnectListener, sl |-> NewSubscriptionListener,
     rl |-> NewReceiptListener, ml |-> NewMessageListener]

InitRegistry ==
    /\ RegInit
    /\ cli = [c \in {} |-> 0]
    /\ sub = NewListener
    /\ lis = NewListeners

NextRegistry ==
    \/ \E k \in Keys : SetItem(k)
    \/ \E k \in Keys : Pop(k)
    \/ \E k \in Keys : Enter(k)
    \/ \E h \in Handles, t \in {NoTimer} \cup (0..MaxTimeout) : Wait(h, t)
    \/ \E h \in Handles : Expire(h)
    \/ RegTick
    \/ \E h \in Handles, res \in {"value", ExtErr, Cancelled} : Complete(h, res)
    \/ \E h \in Handles : ExitNormal(h)
    \/ \E h \in Handles, e \in Failures : ExitRaise(h, e)

SpecRegistry == InitRegistry /\ [][NextRegistry]_vars

(***************************************************************************)
(* PART 2. The connection orchestrator, stompest/async/client.py.          *)
(*                                                                         *)
(* cli[c] is the state of Stomp instance c together with the protocol      *)
(* object (transport) it created last. Every operation is an operator from *)
(* the state of one instance to its next state, so that the chain of       *)
(* callbacks a Deferred runs synchronously is one step. The modules        *)
(* stompest.async.util (exclusive), stompest.async.protocol (StompFactory, *)
(* the protocol object) and stompest.protocol (StompSession,               *)
(* StompFailoverProtocol) are not among the sources and are modelled from   *)
(* the specification.                                                      *)
(***************************************************************************)
Clients == {1, 2}

NumPairs == 3         \* pairs the failover sequence yields before it ends
ReconnectDelay == 2   \* delay before every attempt but the first, in ticks
MaxConnects == 2      \* calls of connect per instance
MaxCommands == 1      \* frames handed to one transport after the handshake
MaxMsgs == 1          \* MESSAGE frames received per instance
MaxTx == 1            \* transactions begun per instance

Brokers == <<"A", "B">>
Tokens == {"/queue/1"}         \* subscription tokens (one per destination)
Msgs == 1..MaxMsgs             \* message-id headers
NoSignal == 0

\* StompFailoverProtocol.__iter__: the i-th pair (broker, delay) it yields.
FailoverPair(i) ==
    [broker |-> Brokers[((i - 1) % Len(Brokers)) + 1],
     delay |-> IF i = 1 THEN 0 ELSE ReconnectDelay]

\* Frames handed to the transport of the current protocol object.
NoWire == [nConnect |-> 0, nDisconnect |-> 0, nAck |-> 0, nOther |-> 0]

\* StompSpec.CLIENT_ACK_MODES; the ack header of a SUBSCRIBE frame.
ClientAckModes == {"client", "client-individual"}
AckHeaders == {"none", "client"}
NoSub == [on |-> FALSE, ack |-> FALSE, errDest |-> FALSE]
NoSessionSub == [on |-> FALSE, hdr |-> "none", errDest |-> FALSE]

\* StompSession(version).
NewSession ==
    [connected |-> FALSE, subs |-> [t \in Tokens |-> NoSessionSub], txs |-> {}, ntx |-> 0]

\* The marker protocol.handlerStarted sets for a message: the protocol object
\* it was set on (the transport opened as conn-th) and the times it was cleared.
NoHandler == [st |-> "none", ack |-> FALSE, errDest |-> FALSE, conn |-> 0, cleared |-> 0]

\* Stomp.__init__(config, connectTimeout, connectedTimeout, onMessageFailed)
\* timeout: connectedTimeout is set; hook: onMessageFailed is given.
NewClient(timeout, hook) ==
    [connectedTimeout |-> timeout,
     customHook |-> hook,
     session |-> NewSession,
     protocol |-> FALSE,            \* self.__protocol is a protocol object
     subscriptions |-> [t \in Tokens |-> NoSub],   \* self._subscriptions
     signal |-> NoSignal,           \* self._connectedSignal (0: None)
     \* the decorator exclusive: connect, disconnect still running
     connectRunning |-> FALSE,
     disconnectRunning |-> FALSE,
     \* the coroutine connect and _connectEndpoint
     pc |-> "idle",                 \* idle, sleep, endpoint, handshake
     idx |-> 0,                     \* pairs taken from self._failover
     sleepLeft |-> 0,               \* ticks until _sleep(delay) fires
     slept |-> 0,                   \* ticks slept before this attempt
     nconn |-> 0,                   \* calls of connect so far
     nsig |-> 0,                    \* Deferreds made by _waitConnected
     timers |-> {},                 \* signals with a pending deferLater
     connectResult |-> "none",      \* what connect delivered to its caller
     disconnectResult |-> "none",   \* what disconnect delivered to its caller
     \* the protocol object made by the last endpoint.connect
     transport |-> "none",          \* none, open, closing
     opened |-> 0,                  \* transports opened so far
     wire |-> NoWire,
     disconnecting |-> FALSE,       \* protocol.disconnect has been called
     reason |-> "none",             \* failure handed to protocol.disconnect
     handlers |-> [m \in Msgs |-> NoHandler],
     \* the event handled last and what it raised or returned
     last |-> "init",
     res |-> "none"]

\* The event `op` is being handled on instance state s.
event(s, op) == [s EXCEPT !.last = op, !.res = "ok"]

\* connect fails towards its caller with e (the Deferred of the coroutine
\* fires with the failure; exclusive lets the next call in).
connectFailed(s, e) ==
    [s EXCEPT !.pc = "idle", !.connectRunning = FALSE, !.connectResult = e]

\* The head of the loop as a slip would have it: the sequence starts over when
\* it has ended, and connect never gives up.
nextPairWrapping(s) ==
    LET i == IF s.idx >= NumPairs THEN 1 ELSE s.idx + 1
        d == FailoverPair(i).delay
    IN  [s EXCEPT !.idx = i, !.slept = 0, !.sleepLeft = d,
                  !.pc = IF d = 0 THEN "endpoint" ELSE "sleep"]

\* _connectEndpoint, the head of its for loop: the next (broker, delay) is
\* taken from self._failover and _sleep(delay) is awaited; _sleep returns at
\* once when there is no delay. When the sequence has ended the connect
\* fails with a connection error (lines 78-82).
nextPair(s) ==
    IF s.idx >= NumPairs
    THEN connectFailed(s, "ConnectionError")
    ELSE LET d == FailoverPair(s.idx + 1).delay
         IN  [s EXCEPT !.idx = @ + 1, !.slept = 0, !.sleepLeft = d,
                       !.pc = IF d = 0 THEN "endpoint" ELSE "sleep"]

\* The body of connect up to its first suspension (lines 69-79).
connectBody(s) ==
    IF s.protocol
    THEN connectFailed(s, "AlreadyConnected")
    ELSE nextPair([s EXCEPT !.idx = 0])

\* connect as a slip would have it: not exclusive.
connectUnguarded(s) ==
    connectBody([s EXCEPT !.connectRunning = TRUE,
                     !.nconn = @ + 1, !.connectResult = "pending"])

\* Stomp.connect, @exclusive: a call while an earlier one is running fails
\* at once; otherwise the body runs to its first suspension.
connect(s) ==
    IF s.connectRunning
    THEN [s EXCEPT !.res = "AlreadyRunning"]
    ELSE connectBody([s EXCEPT !.connectRunning = TRUE,
                          !.nconn = @ + 1, !.connectResult = "pending"])

\* _sleep as a slip would have it: the delay is not awaited.
sleepEarly(s) == [s EXCEPT !.pc = "endpoint"]

\* _sleep(delay) (lines 291-295): the deferLater fires once the delay has
\* passed, and endpoint.connect is called for the pair taken (line 277-280).
sleep(s) ==
    IF s.sleepLeft > 0
    THEN [s EXCEPT !.sleepLeft = @ - 1, !.slept = @ + 1]
    ELSE [s EXCEPT !.pc = "endpoint"]

\* endpoint.connect fails (line 281): a warning is logged and the loop goes on.
endpointFailed(s) == nextPair(s)

\* endpoint.connect succeeds (line 280, 284): protocol.send(frame) and
\* _waitConnected up to its yield (lines 85-86, 299-302).
endpointConnected(s) ==
    [s EXCEPT
        !.transport = "open", !.opened = @ + 1,
        !.wire = [NoWire EXCEPT !.nConnect = 1],
        !.disconnecting = FALSE, !.reason = "none",
        !.pc = "handshake",
        !.signal = s.nsig + 1, !.nsig = @ + 1,
        !.timers = IF s.connectedTimeout THEN @ \cup {s.nsig + 1} ELSE @]

\* protocol.loseConnection()
loseConnection(s) ==
    [s EXCEPT !.transport = IF @ = "open" THEN "closing" ELSE @]

\* handshakeFailed as a slip would have it: the transport is kept open.
handshakeFailedLeaking(s, e) ==
    connectFailed([s EXCEPT !.signal = NoSignal], e)

\* The handshake wait fails with e: the finally of _waitConnected clears the
\* signal (line 305), connect closes the transport and raises (lines 87-90).
handshakeFailed(s, e) ==
    connectFailed(loseConnection([s EXCEPT !.signal = NoSignal]), e)

\* ---- commands (lines 105-150, 250-251) ----

\* The getter of Stomp._protocol (lines 233-238) raises
\* StompConnectionError('Not connected').
notConnected(s) == [s EXCEPT !.res = "NotConnected"]

\* protocol.send(frame) of a frame counted as kind.
sendAck(s) == [s EXCEPT !.wire.nAck = @ + 1]
sendOther(s) == [s EXCEPT !.wire.nOther = @ + 1]

\* Stomp.send (lines 105-106) and Stomp.sendFrame (lines 250-251).
send(s) == IF ~s.protocol THEN notConnected(s) ELSE sendOther(s)
sendFrame(s) == IF ~s.protocol THEN notConnected(s) ELSE sendOther(s)

\* Stomp.ack (lines 108-109), Stomp.nack (lines 111-112): self._protocol is
\* evaluated before session.ack(frame) builds the frame.
ack(s) == IF ~s.protocol THEN notConnected(s) ELSE sendAck(s)
nack(s) == IF ~s.protocol THEN notConnected(s) ELSE sendOther(s)

\* begin as a slip would have it: the session is asked first.
beginSessionFirst(s) ==
    LET s1 == [s EXCEPT !.session.txs = @ \cup {s.session.ntx + 1},
                        !.session.ntx = @ + 1]
    IN  IF ~s.protocol THEN notConnected(s1) ELSE sendOther(s1)

\* Stomp.begin (lines 114-118): session.begin() allocates the transaction.
begin(s) ==
    IF ~s.protocol THEN notConnected(s)
    ELSE sendOther([s EXCEPT !.session.txs = @ \cup {s.session.ntx + 1},
                             !.session.ntx = @ + 1])

\* Stomp.abort (lines 120-124) and Stomp.commit (lines 126-130): the session
\* refuses a transaction it does not know.
abort(s, tx) ==
    IF ~s.protocol THEN notConnected(s)
    ELSE IF tx \notin s.session.txs THEN [s EXCEPT !.res = "ProtocolError"]
    ELSE sendOther([s EXCEPT !.session.txs = @ \ {tx}])
commit(s, tx) ==
    IF ~s.protocol THEN notConnected(s)
    ELSE IF tx \notin s.session.txs THEN [s EXCEPT !.res = "ProtocolError"]
    ELSE sendOther([s EXCEPT !.session.txs = @ \ {tx}])

\* Stomp.subscribe (lines 132-140) with a callable handler: session.subscribe
\* records the subscription with its headers and context, the ack header
\* defaults to DEFAULT_ACK_MODE = 'auto', and the local record is stored.
subscribe(s, tok, ackArg, hdr, errDest) ==
    IF ~s.protocol THEN notConnected(s)
    ELSE IF s.session.subs[tok].on THEN [s EXCEPT !.res = "ProtocolError"]
    ELSE sendOther(
           [s EXCEPT !.session.subs[tok] =
                         [on |-> TRUE, hdr |-> hdr, errDest |-> errDest],
                     !.subscriptions[tok] =
                         [on |-> TRUE, errDest |-> errDest,
                          ack |-> ackArg /\ (IF hdr = "none" THEN "auto" ELSE hdr)
                                                \in ClientAckModes]])

\* Stomp.unsubscribe (lines 142-150).
unsubscribe(s, tok) ==
    IF ~s.protocol THEN notConnected(s)
    ELSE IF ~s.session.subs[tok].on THEN [s EXCEPT !.res = "ProtocolError"]
    ELSE IF ~s.subscriptions[tok].on
         THEN [s EXCEPT !.session.subs[tok] = NoSessionSub, !.res = "KeyError"]
    ELSE sendOther([s EXCEPT !.session.subs[tok] = NoSessionSub,
                             !.subscriptions[tok] = NoSub])

\* ---- disconnect (lines 96-103, 257-262) ----

\* The handlers outstanding on the current protocol object.
Running(s) == {m \in Msgs : s.handlers[m].st = "running" /\ s.handlers[m].conn = s.opened}

\* Stomp._onDisconnect(protocol, error) (lines 257-262): session.disconnect(),
\* session.flush() unless there is an error, the DISCONNECT frame is sent and
\* the transport is closed.
onDisconnect(s) ==
    loseConnection(
        [s EXCEPT !.session.connected = FALSE,
                  !.session.txs = {},
                  !.session.subs = IF s.reason = "none"
                                   THEN [t \in Tokens |-> NoSessionSub] ELSE @,
                  !.wire.nDisconnect = @ + 1])

\* protocol.disconnect(failure): the protocol object records the failure and
\* starts draining; with no handler outstanding it calls back _onDisconnect.
protocolDisconnect(s, failure) ==
    LET s1 == [s EXCEPT !.disconnecting = TRUE,
                        !.reason = IF @ = "none" THEN failure ELSE @]
    IN  IF Running(s1) = {} THEN onDisconnect(s1) ELSE s1

\* Stomp.disconnect, @exclusive (lines 96-103) up to its yield; without a
\* protocol the getter raises and the finally clears self._protocol.
disconnect(s, failure) ==
    IF s.disconnectRunning THEN [s EXCEPT !.res = "AlreadyRunning"]
    ELSE IF ~s.protocol
         THEN [s EXCEPT !.disconnectResult = "NotConnected"]
    ELSE protocolDisconnect(
             [s EXCEPT !.disconnectRunning = TRUE, !.disconnectResult = "pending"],
             failure)

\* The transport is lost. protocol.disconnected fires: _handleDisconnected
\* (lines 253-255) if the protocol was stored, and a disconnect that awaits
\* it resumes (lines 101-103).
connectionLost(s) ==
    LET s1 == [s EXCEPT !.transport = "none"]
    IN  IF ~s.protocol THEN s1
        ELSE [s1 EXCEPT
                !.protocol = FALSE,
                !.disconnectRunning = FALSE,
                !.disconnectResult =
                    IF ~s.disconnectRunning THEN @
                    ELSE IF s.reason # "none" THEN s.reason ELSE "ok"]

\* ---- frames received (lines 155-212) ----

\* Stomp._replay (lines 286-289): subscribe(destination, headers=headers,
\* **context) for every subscription the session kept; context holds the
\* handler, the receipt and the errorDestination, so ack is its default True.
replay(s) ==
    [s EXCEPT
       !.subscriptions =
           [t \in Tokens |->
              IF s.session.subs[t].on
              THEN [on |-> TRUE, errDest |-> s.session.subs[t].errDest,
                    ack |-> (IF s.session.subs[t].hdr = "none" THEN "auto"
                             ELSE s.session.subs[t].hdr) \in ClientAckModes]
              ELSE @[t]],
       !.wire.nOther = @ + Cardinality({t \in Tokens : s.session.subs[t].on})]

\* The handshake wait succeeds: _waitConnected cancels its timeout and clears
\* the signal (lines 303-305), connect stores the protocol, replays and
\* returns (lines 92-94).
handshakeDone(s) ==
    replay([s EXCEPT !.timers = @ \ {s.signal}, !.signal = NoSignal,
                     !.protocol = TRUE,
                     !.pc = "idle", !.connectRunning = FALSE,
                     !.connectResult = "ok"])

\* Stomp._onConnected (lines 162-166).
onConnected(s) ==
    LET s1 == [s EXCEPT !.session.connected = TRUE]
    IN  IF s1.signal = NoSignal
        THEN [s1 EXCEPT !.res = "AttributeError"]
        ELSE handshakeDone(s1)

\* _onError as a slip would have it: the workaround is missing.
onErrorNoWorkaround(s, quirk) ==
    IF s.signal # NoSignal
    THEN handshakeFailed(s, "ProtocolError")
    ELSE disconnect(s, "ProtocolError")

\* Stomp._onError (lines 168-177); quirk: the message header contains
\* 'Unexpected ACK received for message-id'.
onError(s, quirk) ==
    IF s.signal # NoSignal
    THEN handshakeFailed(s, "ProtocolError")
    ELSE IF quirk THEN s
    ELSE disconnect(s, "ProtocolError")

\* task.deferLater(reactor, self._connectedTimeout, self._connectedSignal.cancel)
\* fires for the Deferred g it was made for (line 301): cancel() fails a
\* Deferred that has not fired with CancelledError and ignores one that has.
connectedTimeout(s, g) ==
    IF s.signal = g
    THEN handshakeFailed([s EXCEPT !.timers = @ \ {g}], Cancelled)
    ELSE [s EXCEPT !.timers = @ \ {g}]

\* onMessage as a slip would have it: a protocol that is draining accepts
\* the handler.
onMessageWhileDraining(s, m, tok) ==
    IF ~s.session.subs[tok].on \/ ~s.subscriptions[tok].on THEN s
    ELSE [s EXCEPT !.handlers[m] = [st |-> "running",
                                    ack |-> s.subscriptions[tok].ack,
                                    errDest |-> s.subscriptions[tok].errDest,
                                    conn |-> s.opened, cleared |-> 0]]

\* Stomp._onMessage up to the call of the handler (lines 180-197).
onMessage(s, m, tok) ==
    IF ~s.session.subs[tok].on \/ ~s.subscriptions[tok].on THEN s
    ELSE IF s.disconnecting THEN s
    ELSE [s EXCEPT !.handlers[m] = [st |-> "running",
                                    ack |-> s.subscriptions[tok].ack,
                                    errDest |-> s.subscriptions[tok].errDest,
                                    conn |-> s.opened, cleared |-> 0]]

\* A call that may raise: the state it leaves and the exception ("none").
Ok(s) == [s |-> s, exc |-> "none"]
Raised(s, e) == [s |-> s, exc |-> e]
tryAck(s) == IF s.protocol THEN Ok(sendAck(s)) ELSE Raised(s, "NotConnected")
trySend(s) == IF s.protocol THEN Ok(sendOther(s)) ELSE Raised(s, "NotConnected")

\* Stomp.sendToErrorDestination (lines 223-228).
sendToErrorDestination(s, errDest) ==
    IF ~errDest THEN Ok(s)
    ELSE LET r == trySend(s) IN IF r.exc # "none" THEN r ELSE tryAck(r.s)

\* Stomp._onMessageFailed (lines 217-221); hookOk: a hook given to the
\* constructor returns without raising.
onMessageFailed(s, errDest, hookOk) ==
    IF s.customHook
    THEN IF hookOk THEN Ok(s) ELSE Raised(s, "HookError")
    ELSE sendToErrorDestination(s, errDest)

\* handlerFinished as a slip would have it: the marker stays when a
\* disconnect was called for the failure.
handlerFinishedUnlessFailed(s, m) ==
    IF s.res # "ok" \/ s.reason # "none" THEN s
    ELSE [s EXCEPT !.handlers[m].st = "done", !.handlers[m].cleared = @ + 1]

\* protocol.handlerFinished(messageId) (line 209), on the protocol object the
\* MESSAGE came from: the marker is cleared, and a protocol that is draining
\* calls back _onDisconnect when its last handler is done.
handlerFinished(s, m) ==
    LET s1 == [s EXCEPT !.handlers[m].st = "done", !.handlers[m].cleared = @ + 1]
    IN  IF /\ s.handlers[m].conn = s.opened /\ s.handlers[m].st = "running"
           /\ s1.disconnecting /\ Running(s1) = {} /\ s1.transport = "open"
        THEN onDisconnect(s1) ELSE s1

\* The except clause as a slip would have it: an error of the hook is
\* logged and dropped.
messageFailedSwallowing(s, m, hookOk) ==
    onMessageFailed(s, s.handlers[m].errDest, hookOk).s

\* The except clause of _onMessage (lines 200-207) for exception e.
messageFailed(s, m, hookOk) ==
    LET h == s.handlers[m]
        r1 == onMessageFailed(s, h.errDest, hookOk)
        r2 == IF r1.exc = "none" /\ h.ack THEN tryAck(r1.s) ELSE r1
    IN  IF r2.exc = "none" THEN r2.s ELSE disconnect(r2.s, r2.exc)

\* Stomp._onMessage after the handler has returned (lines 197-209);
\* ok: the handler succeeded.
handlerReturned(s, m, ok, hookOk) ==
    LET h == s.handlers[m]
        r == IF ok THEN (IF h.ack THEN tryAck(s) ELSE Ok(s)) ELSE Raised(s, "HandlerError")
    IN  handlerFinished(IF r.exc = "none" THEN r.s ELSE messageFailed(r.s, m, hookOk), m)

\* ---- the steps of the orchestrator ----

\* Instance c handles event `name` by operator result next.
Step(c, next) == cli' = [cli EXCEPT ![c] = next] /\ UNCHANGED <<rvars, sub, lis>>

Connect(c) ==
    /\ cli[c].nconn < MaxConnects
    /\ Step(c, connect(event(cli[c], "connect")))

Sleep(c) ==
    /\ cli[c].pc = "sleep"
    /\ Step(c, sleep(event(cli[c], "sleep")))

EndpointFailed(c) ==
    /\ cli[c].pc = "endpoint"
    /\ Step(c, endpointFailed(event(cli[c], "endpointFailed")))

EndpointConnected(c) ==
    /\ cli[c].pc = "endpoint"
    /\ Step(c, endpointConnected(event(cli[c], "endpointConnected")))

\* A CONNECTED frame is received; a transport that is being closed may still
\* deliver a frame it has read.
ConnectedFrame(c) ==
    /\ cli[c].transport \in {"open", "closing"}
    /\ Step(c, onConnected(event(cli[c], "CONNECTED")))

ErrorFrame(c, quirk) ==
    /\ cli[c].transport = "open"
    /\ Step(c, onError(event(cli[c], IF quirk THEN "ERRORquirk" ELSE "ERROR"), quirk))

ConnectedTimeout(c, g) ==
    /\ g \in cli[c].timers
    /\ Step(c, connectedTimeout(event(cli[c], "connectedTimeout"), g))

Disconnect(c, failure) ==
    Step(c, disconnect(event(cli[c], "disconnect"), failure))

ConnectionLost(c) ==
    /\ cli[c].transport \in {"open", "closing"}
    /\ Step(c, connectionLost(event(cli[c], "connectionLost")))

\* A command may be called at any time; the number of frames one transport
\* is handed is bounded.
MaySend(s) == ~s.protocol \/ s.wire.nOther < MaxCommands

Send(c) == MaySend(cli[c]) /\ Step(c, send(event(cli[c], "send")))

SendFrame(c) == MaySend(cli[c]) /\ Step(c, sendFrame(event(cli[c], "sendFrame")))

Ack(c) ==
    /\ ~cli[c].protocol \/ cli[c].wire.nAck < MaxCommands
    /\ Step(c, ack(event(cli[c], "ack")))

Nack(c) == MaySend(cli[c]) /\ Step(c, nack(event(cli[c], "nack")))

Begin(c) ==
    /\ MaySend(cli[c])
    /\ ~cli[c].protocol \/ cli[c].session.ntx < MaxTx
    /\ Step(c, begin(event(cli[c], "begin")))

Abort(c, tx) == MaySend(cli[c]) /\ Step(c, abort(event(cli[c], "abort"), tx))

Commit(c, tx) == MaySend(cli[c]) /\ Step(c, commit(event(cli[c], "commit"), tx))

Subscribe(c, tok, ackArg, hdr, errDest) ==
    /\ MaySend(cli[c])
    /\ Step(c, subscribe(event(cli[c], "subscribe"), tok, ackArg, hdr, errDest))

Unsubscribe(c, tok) ==
    /\ MaySend(cli[c])
    /\ Step(c, unsubscribe(event(cli[c], "unsubscribe"), tok))

\* A MESSAGE frame with a message-id not seen before; a protocol that is
\* draining refuses any MESSAGE frame before it looks at the message-id.
MessageFrame(c, m, tok) ==
    /\ cli[c].transport = "open"
    /\ cli[c].handlers[m].st = "none" \/ cli[c].disconnecting
    /\ Step(c, onMessage(event(cli[c], "MESSAGE"), m, tok))

\* The event of a handler's Deferred firing: ok, the handler succeeded;
\* hookOk, a hook given to the constructor does not raise.
HandlerTag(ok, hookOk) ==
    IF ok THEN (IF hookOk THEN "handlerOk" ELSE "handlerOk/hookRaises")
    ELSE (IF hookOk THEN "handlerFailed" ELSE "handlerFailed/hookRaises")
HandlerTags == {HandlerTag(ok, hookOk) : ok \in BOOLEAN, hookOk \in BOOLEAN}

HandlerReturned(c, m, ok, hookOk) ==
    /\ cli[c].handlers[m].st = "running"
    /\ Step(c, handlerReturned(event(cli[c], HandlerTag(ok, hookOk)), m, ok, hookOk))

\* A session that kept a subscription from an earlier connection which ended
\* with a failure (its replay log), or a new one.
KeptSessions ==
    {NewSession} \cup
    {[NewSession EXCEPT !.subs = [t \in Tokens |->
                                    [on |-> TRUE, hdr |-> hdr, errDest |-> FALSE]]]
        : hdr \in AckHeaders}

\* The instances start unconnected, with the given choices of connectedTimeout
\* and onMessageFailed, each with a session of `sessions`.
InitClients(timeouts, hooks, sessions) ==
    /\ RegInit
    /\ sub = NewListener
    /\ lis = NewListeners
    /\ \E t \in timeouts, h \in hooks, ss \in sessions :
          cli = [c \in Clients |-> [NewClient(t, h) EXCEPT !.session = ss]]

\* Connecting: failover, handshake, its failures, and disconnect.
ConnectNext(c) ==
    \/ Connect(c)
    \/ Sleep(c)
    \/ EndpointFailed(c)
    \/ EndpointConnected(c)
    \/ ConnectedFrame(c)
    \/ \E quirk \in BOOLEAN : ErrorFrame(c, quirk)
    \/ \E g \in 1..MaxConnects : ConnectedTimeout(c, g)
    \/ \E failure \in {"none", "UserError"} : Disconnect(c, failure)
    \/ ConnectionLost(c)
    \/ Send(c)

Init == InitClients(BOOLEAN, {FALSE}, KeptSessions)
Next == ConnectNext(1)
Spec == Init /\ [][Next]_vars

\* Two instances side by side: connect, handshake and disconnect.
InitExclusive == InitClients({TRUE}, {FALSE}, {NewSession})
NextExclusive ==
    \E c \in Clients :
        \/ Connect(c)
        \/ EndpointConnected(c)
        \/ ConnectedFrame(c)
        \/ \E g \in 1..MaxConnects : ConnectedTimeout(c, g)
        \/ Disconnect(c, "none")
        \/ ConnectionLost(c)
SpecExclusive == InitExclusive /\ [][NextExclusive]_vars

\* The commands, in every connection state of one instance.
InitCommands == InitClients({FALSE}, {FALSE}, {NewSession})
NextCommands ==
    \/ Connect(1)
    \/ EndpointConnected(1)
    \/ ConnectedFrame(1)
    \/ Disconnect(1, "none")
    \/ ConnectionLost(1)
    \/ Send(1)
    \/ SendFrame(1)
    \/ Ack(1)
    \/ Nack(1)
    \/ Begin(1)
    \/ \E tx \in 1..MaxTx : Abort(1, tx)
    \/ \E tx \in 1..MaxTx : Commit(1, tx)
    \/ \E tok \in Tokens, ackArg \in BOOLEAN, hdr \in AckHeaders, errDest \in BOOLEAN :
          Subscribe(1, tok, ackArg, hdr, errDest)
    \/ \E tok \in Tokens : Unsubscribe(1, tok)
SpecCommands == InitCommands /\ [][NextCommands]_vars

\* Frames received on a connection: ERROR, MESSAGE and their handlers.
InitFrames == InitClients({FALSE}, BOOLEAN, {NewSession})
NextFrames ==
    \/ Connect(1)
    \/ EndpointConnected(1)
    \/ ConnectedFrame(1)
    \/ \E quirk \in BOOLEAN : ErrorFrame(1, quirk)
    \/ \E failure \in {"none", "UserError"} : Disconnect(1, failure)
    \/ ConnectionLost(1)
    \/ \E tok \in Tokens, ackArg \in BOOLEAN, hdr \in AckHeaders, errDest \in BOOLEAN :
          Subscribe(1, tok, ackArg, hdr, errDest)
    \/ \E m \in Msgs, tok \in Tokens : MessageFrame(1, m, tok)
    \/ \E m \in Msgs, ok \in BOOLEAN, hookOk \in BOOLEAN : HandlerReturned(1, m, ok, hookOk)
SpecFrames == InitFrames /\ [][NextFrames]_vars

(***************************************************************************)
(* Claims about the correlation registry, checked under SpecRegistry.      *)
(***************************************************************************)

Active(h) == blk[h].st \in {"running", "waiting"}

\* C1: registering a key that is already registered fails with 'already in
\* progress' and leaves the registered handle (and every handle's state) as
\* it was; registering an absent key installs a fresh pending handle; and
\* once the block of an entry has been left the key is absent, so that it can
\* be registered again.
C1_ExclusiveRegistration ==
    [][ /\ regCall'.op = "create" =>
             IF waiting[regCall'.key] # NoHandle
             THEN /\ regCall'.err = "AlreadyInProgress"
                  /\ waiting' = waiting /\ hs' = hs /\ blk' = blk
             ELSE /\ regCall'.err = "none"
                  /\ waiting'[regCall'.key] = regCall'.h
                  /\ blk[regCall'.h].st = "none"
                  /\ ~hs'[regCall'.h].called
        /\ regCall'.op = "exit" => waiting'[regCall'.key] = NoHandle
      ]_vars

\* C1 witness: a key whose first entry was resolved and removed has been
\* registered again, and a further registration of it has just been refused.
C1_Witness ==
    /\ regCall.op = "create" /\ regCall.err = "AlreadyInProgress"
    /\ \E h \in Handles : blk[h].st = "left" /\ blk[h].key = regCall.key
    /\ waiting[regCall.key] # NoHandle

\* C2 as stated: once a wait has failed by expiry, the key of the handle is no
\* longer registered, whether or not the block has been left.
C2_ExpiryRemovesEntry ==
    \A h \in Handles :
        (hs[h].called /\ hs[h].result = TimeoutErr) => waiting[blk[h].key] # h

\* C2 as amended: a wait with timeout 0 lets no time pass before it is decided;
\* its expiry rejects the handle with the error handed to wait and raises that
\* error in the body, and leaves the key registered: the entry is removed
\* when the block is left.
C2_ExpiryRejectsAndScopeRemoves ==
    [][ /\ (\E h \in Handles : blk[h].st = "waiting" /\ blk[h].timer = 0)
              => regCall'.op # "tick"
        /\ regCall'.op = "expire" =>
              /\ hs'[regCall'.h] = [called |-> TRUE, result |-> TimeoutErr]
              /\ blk'[regCall'.h].st = "running"
              /\ blk'[regCall'.h].got = TimeoutErr
              /\ waiting'[regCall'.key] = regCall'.h
        /\ regCall'.op = "exit" =>
              /\ waiting[regCall'.key] = regCall'.h
              /\ waiting'[regCall'.key] = NoHandle
      ]_vars

\* C2 witness: test_timeout at its line 115: the wait with timeout 0 has failed
\* with the error, the body is still inside the block, the key is registered.
C2_Witness ==
    \E h \in Handles :
        /\ blk[h].st = "running" /\ blk[h].got = TimeoutErr
        /\ hs[h].result = TimeoutErr
        /\ waiting[blk[h].key] = h

\* C3: a key is registered to the handle of its block for as long as the block
\* is active, is no longer registered to it once the block has been left, and
\* every registered key belongs to an active block (or to an entry set
\* directly with op[k] = w): scoped acquisitions leave no key behind.
C3_ScopedAcquisition ==
    /\ \A h \in Handles : Active(h) => waiting[blk[h].key] = h
    /\ \A h \in Handles : blk[h].st = "left" => waiting[blk[h].key] # h
    /\ \A k \in Keys : waiting[k] # NoHandle =>
          /\ blk[waiting[k]].key = k
          /\ Active(waiting[k]) \/ blk[waiting[k]].st = "direct"

\* C3 witness: one block was left by an exception of its body after its handle
\* had already been completed inside the body, another was left another way,
\* and no key is registered.
C3_Witness ==
    /\ \E h \in Handles :
          /\ blk[h].st = "left" /\ blk[h].got = BodyErr
          /\ hs[h].result \in {TimeoutErr, Cancelled, ExtErr, "value"}
    /\ \E h \in Handles : blk[h].st = "left" /\ blk[h].got # BodyErr
    /\ \A k \in Keys : waiting[k] = NoHandle

(***************************************************************************)
(* PART 3. SubscriptionListener.onDisconnect (listener.py): the wait for   *)
(* the outstanding message handlers of one subscription. Time is counted   *)
(* in units from the call of onDisconnect.                                 *)
(***************************************************************************)

MaxMessages == 2
MaxDrainTimeout == 2
MaxTime == 4

MessageIds == 1..MaxMessages

\* The orders in which list(self._messages.values()) may hold the handles of
\* the message ids of S.
Orders(S) ==
    {o \in [1..Cardinality(S) -> S] : \A i, j \in 1..Cardinality(S) : o[i] = o[j] => i = j}

\* onDisconnect completes at the present time, with result r.
drainReturn(l, r) == [l EXCEPT !.phase = "returned", !.result = r, !.doneAt = l.now]

\* The cooperative task of _waitForMessages (lines 247-248) takes the next
\* item of its generator, from position i on: handler.wait(timeout, err) is
\* called for the next handle of the list, with a timer of its own; the wait
\* on a handle that has fired returns at once; at the end of the list the
\* task is done and onDisconnect returns (line 202).
RECURSIVE waitFrom(_, _)
waitFrom(l, i) ==
    IF i > Len(l.order) THEN drainReturn([l EXCEPT !.pos = i], "ok")
    ELSE IF l.order[i] \in l.finished THEN waitFrom(l, i + 1)
    ELSE [l EXCEPT !.pos = i, !.deadline = l.now + l.timeout]

\* SubscriptionListener.onMessage up to the yield of the handler (lines
\* 204-213): the handler of message m is outstanding in self._messages.
listenerOnMessage(l, m) == [l EXCEPT !.messages = @ \cup {m}]

\* The handler of message m finishes (lines 214-220): the handle fires unless
\* it has, and the scope removes it; a wait on it resumes the task.
handlerDone(l, m) ==
    LET l1 == [l EXCEPT !.messages = @ \ {m}, !.finished = @ \cup {m}]
    IN  IF l.phase = "draining" /\ l.order[l.pos] = m
        THEN waitFrom(l1, l.pos + 1)
        ELSE l1

\* The connection broadcasts a MESSAGE frame of this subscription: onMessage
\* is called on the listeners that are registered, and a listener that was
\* removed is not told.
connectionMessage(l, m) ==
    IF l.registered THEN listenerOnMessage(l, m)
    ELSE [l EXCEPT !.refused = @ \cup {m}]

\* onDisconnect as a slip would have it: the listener stays registered while
\* it waits.
listenerOnDisconnectRegistered(l, timeout, o) ==
    LET l1 == [l EXCEPT !.timeout = timeout, !.now = 0, !.order = o]
    IN  IF l.messages = {}
        THEN drainReturn(l1, "ok")
        ELSE waitFrom([l1 EXCEPT !.phase = "draining"], 1)

\* SubscriptionListener.onDisconnect(connection, reason, timeout) (lines
\* 195-202) with the handles listed in order o; connection.remove(self)
\* comes first (line 197).
listenerOnDisconnect(l, timeout, o) ==
    LET l1 == [l EXCEPT !.timeout = timeout, !.now = 0, !.order = o,
                        !.registered = FALSE]
    IN  IF l.messages = {}
        THEN drainReturn(l1, "ok")
        ELSE waitFrom([l1 EXCEPT !.phase = "draining"], 1)

\* The timer of the wait in progress fires: the wait is rejected with
\* StompCancelledError('Handlers did not finish in time.'), the task fails
\* and so does onDisconnect (lines 201, 248).
drainExpire(l) == drainReturn(l, "StompCancelledError")

StepListener(next) == sub' = next /\ UNCHANGED <<rvars, cli, lis>>

\* A MESSAGE frame with a message-id not seen before.
DrainOnMessage(m) ==
    /\ m \notin sub.messages \cup sub.finished \cup sub.refused
    /\ StepListener(connectionMessage(sub, m))

DrainHandlerDone(m) ==
    /\ m \in sub.messages
    /\ StepListener(handlerDone(sub, m))

OnDisconnect(timeout) ==
    /\ sub.phase = "subscribed"
    /\ \E o \in Orders(sub.messages) :
          StepListener(listenerOnDisconnect(sub, timeout, o))

DrainExpire ==
    /\ sub.phase = "draining"
    /\ sub.now = sub.deadline
    /\ StepListener(drainExpire(sub))

\* A unit of time passes; a timer that is due fires first.
DrainTick ==
    /\ sub.phase # "subscribed"
    /\ sub.now < MaxTime
    /\ sub.phase = "draining" => sub.now < sub.deadline
    /\ StepListener([sub EXCEPT !.now = @ + 1])

InitDrain == InitClients({FALSE}, {FALSE}, {NewSession})
NextDrain ==
    \/ \E m \in MessageIds : DrainOnMessage(m)
    \/ \E m \in MessageIds : DrainHandlerDone(m)
    \/ \E timeout \in 1..MaxDrainTimeout : OnDisconnect(timeout)
    \/ DrainExpire
    \/ DrainTick
SpecDrain == InitDrain /\ [][NextDrain]_vars

\* Shutdown in both designs: the client that keeps the handlers of its
\* protocol itself, or a SubscriptionListener on a connection.
NextShutdown ==
    \/ sub = NewListener /\ NextFrames
    \/ (\A c \in Clients : cli[c].last = "init") /\ NextDrain
SpecShutdown == InitFrames /\ [][NextShutdown]_vars

(***************************************************************************)
(* PART 4. HeartBeatListener (listener.py lines 250-304).                  *)
(***************************************************************************)

\* self._thresholds[which] * heartBeat, for a period given in ticks.
window(which, heartBeat) ==
    (DEFAULT_THRESHOLDS[which][1] * heartBeat) \div DEFAULT_THRESHOLDS[which][2]

ClientWindow == window("client", HeartBeatPeriod)
ServerWindow == window("server", HeartBeatPeriod)
MaxClock == ServerWindow + HBSlack

Max(a, b) == IF a >= b THEN a ELSE b

\* _beatRemaining as a slip would have it: the difference is not cut off at 0.
beatRemainingUncut(h, which) ==
    IF h.heartBeat[which] = 0 THEN -1
    ELSE LET lastActive == IF which = "client" THEN h.lastSent ELSE h.lastReceived
         IN  window(which, h.heartBeat[which]) - (h.now - lastActive)

\* HeartBeatListener._beatRemaining (lines 298-304).
beatRemaining(h, which) ==
    IF h.heartBeat[which] = 0 THEN -1
    ELSE LET lastActive == IF which = "client" THEN h.lastSent ELSE h.lastReceived
             elapsed == h.now - lastActive
         IN  Max(window(which, h.heartBeat[which]) - elapsed, 0)

\* connection.session.sent() (line 273) and connection.session.received()
\* (line 270): the session notes the time of the activity.
sessionSent(h) == [h EXCEPT !.lastSent = h.now]
sessionReceived(h) == [h EXCEPT !.lastReceived = h.now]

\* connection.sendFrame(connection.session.beat()) (line 291): the frame is
\* sent and the listeners are told of it, this one by onSend (lines 272-273).
sendBeat(h) == sessionSent([h EXCEPT !.sent = @ + 1])

\* reactor.callLater(remaining, self._beat, connection, which) (line 296).
callLater(h, which, remaining) == [h EXCEPT !.heartBeats[which] = h.now + remaining]

\* _beat as a slip would have it: the timer is armed again for the whole
\* period after a heart-beat was sent.
beatFullPeriod(h, which, connection) ==
    LET h1 == [h EXCEPT !.heartBeats[which] = NoBeat]
        remaining == beatRemaining(h1, which)
    IN  IF ~connection \/ remaining < 0 THEN h1
        ELSE IF remaining = 0
             THEN IF which = "client"
                  THEN callLater(sendBeat(h1), which, h1.heartBeat[which])
                  ELSE [h1 EXCEPT !.disconnects = @ + 1]
        ELSE callLater(h1, which, remaining)

\* _beat as a slip would have it: the server timer is armed again after the
\* disconnect.
beatRearming(h, which, connection) ==
    LET h1 == [h EXCEPT !.heartBeats[which] = NoBeat]
        remaining == beatRemaining(h1, which)
    IN  IF ~connection \/ remaining < 0 THEN h1
        ELSE IF remaining = 0
             THEN IF which = "client"
                  THEN LET h2 == sendBeat(h1)
                       IN  callLater(h2, which, beatRemaining(h2, which))
                  ELSE callLater([h1 EXCEPT !.disconnects = @ + 1], which, remaining)
        ELSE callLater(h1, which, remaining)

\* HeartBeatListener._beat(connection, which) (lines 279-296); connection is
\* FALSE for the None that onConnectionLost passes.
beat(h, which, connection) ==
    LET h1 == [h EXCEPT !.heartBeats[which] = NoBeat]
        remaining == beatRemaining(h1, which)
    IN  IF ~connection \/ remaining < 0 THEN h1
        ELSE IF remaining = 0
             THEN IF which = "client"
                  THEN LET h2 == sendBeat(h1)
                       IN  callLater(h2, which, beatRemaining(h2, which))
                  ELSE [h1 EXCEPT !.disconnects = @ + 1]
        ELSE callLater(h1, which, remaining)

\* HeartBeatListener._beats (lines 275-277).
beats(h, connection) == beat(beat(h, "client", connection), "server", connection)

\* The CONNECTED frame: the session takes the negotiated periods and notes
\* the frame as received; HeartBeatListener.onConnected (lines 262-263).
hbOnConnected(h, client, server) ==
    beats([h EXCEPT !.connected = TRUE,
                    !.heartBeat = [w \in Which |-> IF w = "client" THEN client ELSE server],
                    !.lastSent = h.now, !.lastReceived = h.now],
          TRUE)

\* HeartBeatListener.onConnectionLost (lines 265-267).
hbOnConnectionLost(h) == beats([h EXCEPT !.connected = FALSE], FALSE)

hbEvent(h, name) == [h EXCEPT !.last = name]

StepHeartBeat(next) ==
    lis' = [lis EXCEPT !.hb = next] /\ UNCHANGED <<rvars, cli, sub>>

HBConnected(client, server) ==
    /\ lis.hb.last = "init"
    /\ StepHeartBeat(hbOnConnected(hbEvent(lis.hb, "onConnected"), client, server))

\* A frame is sent by the application: HeartBeatListener.onSend.
HBSend ==
    /\ lis.hb.connected
    /\ StepHeartBeat(sessionSent(hbEvent(lis.hb, "onSend")))

\* A frame is received: HeartBeatListener.onFrame.
HBReceive ==
    /\ lis.hb.connected
    /\ StepHeartBeat(sessionReceived(hbEvent(lis.hb, "onFrame")))

\* The callLater of `which` is due.
HBBeat(which) ==
    /\ lis.hb.heartBeats[which] = lis.hb.now
    /\ StepHeartBeat(beat(hbEvent(lis.hb, which), which, TRUE))

HBConnectionLost ==
    /\ lis.hb.connected
    /\ StepHeartBeat(hbOnConnectionLost(hbEvent(lis.hb, "onConnectionLost")))

\* A tick passes; a callLater that is due fires first.
HBTick ==
    /\ lis.hb.last # "init"
    /\ lis.hb.now < MaxClock
    /\ \A w \in Which : lis.hb.heartBeats[w] # lis.hb.now
    /\ StepHeartBeat([hbEvent(lis.hb, "tick") EXCEPT !.now = @ + 1])

InitHeartBeat == InitClients({FALSE}, {FALSE}, {NewSession})
NextHeartBeat ==
    \/ \E client, server \in {0, HeartBeatPeriod} : HBConnected(client, server)
    \/ HBSend
    \/ HBReceive
    \/ \E w \in Which : HBBeat(w)
    \/ HBConnectionLost
    \/ HBTick
SpecHeartBeat == InitHeartBeat /\ [][NextHeartBeat]_vars

(***************************************************************************)
(* PART 5. DisconnectListener (listener.py lines 88-138).                  *)
(***************************************************************************)

MaxDisconnects == 4     \* calls of onDisconnect on one connection

Reasons == {"ProtocolError", "HeartBeatTimeout"}
UnexpectedLoss == "UnexpectedLoss"

\* The setter of DisconnectListener._disconnectReason (lines 131-138).
setDisconnectReason(d, reason) ==
    IF reason = "none"
    THEN [d EXCEPT !.disconnectReason = reason]
    ELSE IF d.disconnectReason = "none"
         THEN [d EXCEPT !.disconnectReason = reason]
         ELSE d

\* DisconnectListener.onAdd (lines 93-96).
dlOnAdd(d) ==
    [setDisconnectReason([d EXCEPT !.disconnecting = FALSE], "none")
        EXCEPT !.registered = TRUE, !.disconnected = "pending"]

\* DisconnectListener.onDisconnect(connection, reason, timeout) (lines 115-120).
dlOnDisconnect(d, reason) ==
    [setDisconnectReason(d, reason) EXCEPT !.disconnecting = TRUE,
                                           !.asked = Append(d.asked, reason)]

\* connection.session.close(flush): the replay log is dropped when flush.
sessionClose(d, flush) ==
    [d EXCEPT !.closed = TRUE, !.replayLog = IF flush THEN FALSE ELSE @]

\* connection.disconnected.errback(reason) / callback(None).
fire(d, result) == [d EXCEPT !.disconnected = result, !.fired = @ + 1]

\* DisconnectListener.onConnectionLost (lines 98-113).
dlOnConnectionLost(d) ==
    LET d1 == IF ~d.disconnecting THEN setDisconnectReason(d, UnexpectedLoss) ELSE d
        d2 == sessionClose([d1 EXCEPT !.registered = FALSE],
                           d1.disconnectReason = "none")
    IN  IF d2.disconnectReason # "none"
        THEN fire(d2, d2.disconnectReason)
        ELSE fire(d2, "ok")

dlEvent(d, name) == [d EXCEPT !.last = name]

StepDisconnectListener(next) ==
    lis' = [lis EXCEPT !.dl = next] /\ UNCHANGED <<rvars, cli, sub>>

DLAdd ==
    /\ lis.dl.last = "init"
    /\ StepDisconnectListener(dlOnAdd(dlEvent(lis.dl, "onAdd")))

DLDisconnect(reason) ==
    /\ lis.dl.registered
    /\ Len(lis.dl.asked) < MaxDisconnects
    /\ StepDisconnectListener(dlOnDisconnect(dlEvent(lis.dl, "onDisconnect"), reason))

DLConnectionLost ==
    /\ lis.dl.registered
    /\ StepDisconnectListener(dlOnConnectionLost(dlEvent(lis.dl, "onConnectionLost")))

InitDisconnectListener == InitClients({FALSE}, {FALSE}, {NewSession})
NextDisconnectListener ==
    \/ DLAdd
    \/ \E reason \in Reasons \cup {"none"} : DLDisconnect(reason)
    \/ DLConnectionLost
SpecDisconnectListener == InitDisconnectListener /\ [][NextDisconnectListener]_vars

(***************************************************************************)
(* PART 6. SubscriptionListener.onSubscribe (listener.py lines 222-229).   *)
(***************************************************************************)

\* SubscriptionListener.DEFAULT_ACK_MODE (line 182).
DEFAULT_ACK_MODE == "client-individual"

\* The ack header a SUBSCRIBE frame may carry when onSubscribe is called.
FrameAckHeaders == {"absent", "auto", "client", "client-individual"}

\* onSubscribe as a slip would have it: a later SUBSCRIBE frame of this
\* subscription is captured again.
slOnSubscribeAgain(l, f, isSelf) ==
    IF ~isSelf THEN l
    ELSE [l EXCEPT !.frames[f] = IF @ = "absent" THEN DEFAULT_ACK_MODE ELSE @,
                   !.headers = f]

\* SubscriptionListener.onSubscribe(connection, frame, context) (lines
\* 222-229) for frame f; isSelf: context is self.
slOnSubscribe(l, f, isSelf) ==
    IF ~isSelf THEN l
    ELSE IF l.headers # NoFrame THEN l
    ELSE [l EXCEPT !.frames[f] = IF @ = "absent" THEN DEFAULT_ACK_MODE ELSE @,
                   !.headers = f]

\* self._headers[StompSpec.ACK_HEADER] (line 217).
capturedAck(l) == IF l.headers = NoFrame THEN "none" ELSE l.frames[l.headers]

StepSubscriptionListener(next) ==
    lis' = [lis EXCEPT !.sl = next] /\ UNCHANGED <<rvars, cli, sub>>

\* A SUBSCRIBE frame with ack header hdr is made and the listeners are told
\* of it, with this listener as the context or with another.
SLSubscribe(hdr, isSelf) ==
    /\ lis.sl.nframes < MaxSubscribes
    /\ LET f == lis.sl.nframes + 1
           l == [lis.sl EXCEPT !.nframes = f, !.frames[f] = hdr,
                               !.last = IF isSelf THEN "onSubscribe" ELSE "onSubscribeOther"]
       IN  StepSubscriptionListener(slOnSubscribe(l, f, isSelf))

InitSubscriptionListener == InitClients({FALSE}, {FALSE}, {NewSession})
NextSubscriptionListener ==
    \E hdr \in FrameAckHeaders, isSelf \in BOOLEAN : SLSubscribe(hdr, isSelf)
SpecSubscriptionListener == InitSubscriptionListener /\ [][NextSubscriptionListener]_vars

(***************************************************************************)
(* PART 7. ReceiptListener, asynchronous/listener.py lines 140-169.         *)
(*                                                                         *)
(* lis.rl is the listener. A handle of self._receipts that fires runs the  *)
(* rest of the onSend that waits on it at once, so that the entry is       *)
(* removed in the step that completes it.                                  *)
(***************************************************************************)

\* The entry of r is completed with outcome res; the wait in onSend returns
\* or raises, and leaving the with block removes the entry (line 166).
rlLeave(l, r, res) ==
    [l EXCEPT !.receipts[r] = [st |-> "absent", timer |-> NoTimer],
              !.outcome[r] = res]

\* ReceiptListener.onSend (lines 158-166) for a frame with receipt header r:
\* entering `with self._receipts(r)` raises KeyError when r is registered.
rlOnSend(l, r) ==
    IF l.receipts[r].st = "waiting"
    THEN [l EXCEPT !.call = [op |-> "onSend", key |-> r, err |-> "AlreadyInProgress"]]
    ELSE [l EXCEPT !.receipts[r] = [st |-> "waiting", timer |-> l.timeout],
                   !.outcome[r] = "pending",
                   !.call = [op |-> "onSend", key |-> r, err |-> "none"]]

\* ReceiptListener.onReceipt (lines 168-169): self._receipts[receipt] raises
\* KeyError for a key that is not registered (InFlightOperations.__getitem__,
\* test_dict_interface lines 18-19); callback(None) otherwise.
rlOnReceipt(l, r) ==
    IF l.receipts[r].st = "absent"
    THEN [l EXCEPT !.call = [op |-> "onReceipt", key |-> r, err |-> "KeyError"]]
    ELSE [rlLeave(l, r, "arrived") EXCEPT
             !.call = [op |-> "onReceipt", key |-> r, err |-> "none"]]

\* The timer of receiptArrived.wait(self._timeout, StompCancelledError(...))
\* fires (line 166).
rlExpire(l, r) ==
    [rlLeave(l, r, "StompCancelledError") EXCEPT
        !.call = [op |-> "expire", key |-> r, err |-> "none"]]

\* ReceiptListener.onConnectionLost (lines 152-156): every handle waited for
\* fails with StompCancelledError('Receipt did not arrive (connection lost)').
rlOnConnectionLost(l) ==
    [l EXCEPT !.receipts = [r \in ReceiptIds |-> [st |-> "absent", timer |-> NoTimer]],
              !.outcome = [r \in ReceiptIds |->
                             IF l.receipts[r].st = "waiting" THEN "lost" ELSE @[r]],
              !.call = [op |-> "onConnectionLost", key |-> NoReceipt, err |-> "none"]]

StepReceiptListener(next) ==
    lis' = [lis EXCEPT !.rl = next] /\ UNCHANGED <<rvars, cli, sub>>

RLSend(r) == StepReceiptListener(rlOnSend(lis.rl, r))

RLReceipt(r) == StepReceiptListener(rlOnReceipt(lis.rl, r))

RLExpire(r) ==
    /\ lis.rl.receipts[r].st = "waiting"
    /\ lis.rl.receipts[r].timer = 0
    /\ StepReceiptListener(rlExpire(lis.rl, r))

RLConnectionLost == StepReceiptListener(rlOnConnectionLost(lis.rl))

\* A unit of time passes; a timer that is due fires first.
RLTick ==
    /\ \E r \in ReceiptIds : lis.rl.receipts[r].timer > 0
    /\ \A r \in ReceiptIds : lis.rl.receipts[r].timer # 0
    /\ StepReceiptListener(
          [lis.rl EXCEPT
             !.receipts = [r \in ReceiptIds |->
                             IF @[r].timer > 0 THEN [@[r] EXCEPT !.timer = @ - 1] ELSE @[r]],
             !.call = [op |-> "tick", key |-> NoReceipt, err |-> "none"]])

\* The listener is made with timeout None or a number of ticks.
InitReceiptListener ==
    /\ RegInit
    /\ sub = NewListener
    /\ cli = [c \in Clients |-> NewClient(FALSE, FALSE)]
    /\ \E t \in {NoTimer} \cup (1..MaxReceiptTimeout) :
          lis = [NewListeners EXCEPT !.rl.timeout = t]
NextReceiptListener ==
    \/ \E r \in ReceiptIds : RLSend(r)
    \/ \E r \in ReceiptIds : RLReceipt(r)
    \/ \E r \in ReceiptIds : RLExpire(r)
    \/ RLConnectionLost
    \/ RLTick
SpecReceiptListener == InitReceiptListener /\ [][NextReceiptListener]_vars

(***************************************************************************)
(* PART 8. SubscriptionListener.onMessage (listener.py lines 204-220).     *)
(*                                                                         *)
(* lis.ml is a listener that has captured the headers of its SUBSCRIBE     *)
(* frame. The failure hook is an input: it returns or it raises, and       *)
(* sends no ACK of its own.                                                *)
(***************************************************************************)

\* The subscription is ack-managed (line 217).
mlAckManaged(l) == l.ack /\ l.mode \in ClientAckModes

\* onMessage up to the yield of the handler (lines 208-213); isSelf: context
\* is self.
mlOnMessage(l, m, isSelf) ==
    IF ~isSelf THEN l
    ELSE [l EXCEPT !.msgs[m].st = "running"]

\* What became of the handler: it returned, it raised and the hook
\* returned, or the hook raised as well.
mlOutcome(ok, hookOk) ==
    IF ok THEN "ok" ELSE IF hookOk THEN "handled" ELSE "hookRaised"

\* onMessage after the handler has returned (lines 213-220): the except
\* clause calls the hook, and the finally clause acknowledges and fires the
\* handle, whether the try has raised or not.
mlHandlerReturned(l, m, ok, hookOk) ==
    [l EXCEPT !.msgs[m] = [st |-> "done", outcome |-> mlOutcome(ok, hookOk),
                           acks |-> IF mlAckManaged(l) THEN @.acks + 1 ELSE @.acks]]

mlEvent(l, name) == [l EXCEPT !.last = name]

StepMessageListener(next) ==
    lis' = [lis EXCEPT !.ml = next] /\ UNCHANGED <<rvars, cli, sub>>

\* The connection tells the listeners of a MESSAGE frame with a message-id
\* not seen before, with this listener as the context or with another.
MLMessage(m, isSelf) ==
    /\ lis.ml.msgs[m].st = "none"
    /\ StepMessageListener(
          mlOnMessage(mlEvent(lis.ml, IF isSelf THEN "onMessage" ELSE "onMessageOther"),
                      m, isSelf))

\* The Deferred of the handler of message m fires.
MLHandlerReturned(m, ok, hookOk) ==
    /\ lis.ml.msgs[m].st = "running"
    /\ ok => hookOk
    /\ StepMessageListener(
          mlHandlerReturned(mlEvent(lis.ml, "handlerReturned"), m, ok, hookOk))

\* The listener is made with the ack option set or not and has captured an
\* ack header.
InitMessageListener ==
    /\ RegInit
    /\ sub = NewListener
    /\ cli = [c \in Clients |-> NewClient(FALSE, FALSE)]
    /\ \E a \in BOOLEAN, mode \in FrameAckHeaders \ {"absent"} :
          lis = [NewListeners EXCEPT !.ml.ack = a, !.ml.mode = mode]
NextMessageListener ==
    \/ \E m \in ListenerMsgs, isSelf \in BOOLEAN : MLMessage(m, isSelf)
    \/ \E m \in ListenerMsgs, ok \in BOOLEAN, hookOk \in BOOLEAN :
          MLHandlerReturned(m, ok, hookOk)
SpecMessageListener == InitMessageListener /\ [][NextMessageListener]_vars

(***************************************************************************)
(* Claims about the orchestrator.                                          *)
(***************************************************************************)

\* The state of an instance without the record of the event handled last.
Untagged(s) == [s EXCEPT !.last = "", !.res = ""]

\* Instance c handles event `name` in this step.
Handled(c, name) == cli'[c] # cli[c] /\ cli'[c].last = name

C5_FailoverInOrder ==
    [][LET s == cli[1]
           t == cli'[1]
       IN  /\ (Handled(1, "connect") /\ ~s.connectRunning /\ t.connectRunning) =>
                 t.idx = 1
           /\ (t # s /\ t.last # "connect" /\ t.idx # s.idx) =>
                 /\ t.last = "endpointFailed"
                 /\ t.idx = s.idx + 1
           /\ (t.pc = "endpoint" /\ (s.pc # "endpoint" \/ t.idx # s.idx)) =>
                 t.slept = FailoverPair(t.idx).delay
           /\ (Handled(1, "endpointFailed") /\ s.idx < NumPairs) =>
                 /\ t.connectResult = "pending" /\ t.connectRunning
                 /\ t.idx = s.idx + 1
                 /\ t.pc \in {"sleep", "endpoint"}
                 /\ t.transport = s.transport /\ t.wire = s.wire
           /\ Handled(1, "endpointConnected") =>
                 /\ t.connectResult = "pending"
                 /\ t.idx = s.idx /\ t.pc = "handshake"
           /\ (t # s /\ s.pc \in {"handshake", "idle"} /\ t.last # "connect") =>
                 /\ t.idx = s.idx
                 /\ t.pc \in {"handshake", "idle"}
                 /\ t.nsig = s.nsig
      ]_vars

\* C5 witness: the first candidate failed, the delay of the second pair was
\* slept, the transport connect to B succeeded and connect returned without
\* an error.
C5_Witness ==
    /\ cli[1].idx = 2 /\ FailoverPair(2).broker = "B"
    /\ cli[1].slept = ReconnectDelay
    /\ cli[1].connectResult = "ok"

\* C6 (Spec): when the transport connect fails for the last pair of the
\* sequence, connect fails towards its caller with a connection error and is
\* over: no frame is sent, no transport is opened, no protocol is stored.
C6_ExhaustedFails ==
    [][LET s == cli[1]
           t == cli'[1]
       IN  (Handled(1, "endpointFailed") /\ s.idx = NumPairs) =>
              /\ t.connectResult = "ConnectionError"
              /\ ~t.connectRunning /\ t.pc = "idle"
              /\ ~t.protocol /\ t.signal = NoSignal
              /\ t.wire = s.wire /\ t.transport = s.transport
              /\ t.nsig = s.nsig
      ]_vars

\* C6 witness: every pair was tried and connect has failed.
C6_Witness ==
    /\ cli[1].last = "endpointFailed" /\ cli[1].idx = NumPairs
    /\ cli[1].connectResult = "ConnectionError"

\* The handshake wait of s is failed in this step, by its timeout or by an
\* ERROR frame.
HandshakeFails(s, t) ==
    /\ t # s /\ s.signal # NoSignal
    /\ \/ t.last \in {"ERROR", "ERRORquirk"}
       \/ t.last = "connectedTimeout" /\ s.signal \notin t.timers /\ s.signal \in s.timers

\* C7 (Spec): when the handshake wait fails, by its timeout or by an ERROR
\* frame, connect fails towards its caller with that error, the transport is
\* no longer open, no protocol is stored, nothing is replayed (no frame sent,
\* the subscription table as before) and the signal is cleared; the timeout of
\* an earlier attempt that fires during a later handshake leaves that
\* handshake alone.
C7_HandshakeFailure ==
    [][LET s == cli[1]
           t == cli'[1]
       IN  /\ HandshakeFails(s, t) =>
                /\ t.connectResult =
                      IF t.last = "connectedTimeout" THEN Cancelled ELSE "ProtocolError"
                /\ ~t.connectRunning /\ t.pc = "idle"
                /\ t.transport # "open"
                /\ ~t.protocol
                /\ t.subscriptions = s.subscriptions /\ t.wire = s.wire
                /\ t.session = s.session
                /\ t.signal = NoSignal
           /\ (Handled(1, "connectedTimeout") /\ s.signal \in t.timers \cup {NoSignal}) =>
                /\ t.signal = s.signal /\ t.connectResult = s.connectResult
                /\ t.transport = s.transport
      ]_vars

\* C7 witness: the connect-acknowledgement timeout has failed a handshake on
\* an open transport while the session held a subscription to replay.
C7_Witness ==
    /\ cli[1].last = "connectedTimeout" /\ cli[1].connectResult = Cancelled
    /\ cli[1].transport = "closing"
    /\ \E tok \in Tokens : cli[1].session.subs[tok].on /\ ~cli[1].subscriptions[tok].on

CommandNames ==
    {"send", "ack", "nack", "begin", "abort", "commit", "subscribe",
     "unsubscribe", "sendFrame"}

\* C8 (SpecCommands): a command called while no protocol is stored raises
\* NotConnected and changes nothing: no frame, the session and the
\* subscription table as before.
C8_NotConnected ==
    [][LET s == cli[1]
           t == cli'[1]
       IN  (t # s /\ t.last \in CommandNames /\ ~s.protocol) =>
              /\ t.res = "NotConnected"
              /\ t.wire = s.wire
              /\ t.session = s.session
              /\ t.subscriptions = s.subscriptions
              /\ Untagged(t) = Untagged(s)
      ]_vars

\* C8 witness: after a connection with a subscription was lost, unsubscribe of
\* that subscription has raised NotConnected and the subscription is still in
\* the session and in the table.
C8_Witness ==
    /\ cli[1].last = "unsubscribe" /\ cli[1].res = "NotConnected"
    /\ cli[1].connectResult = "ok" /\ cli[1].transport = "none"
    /\ \E tok \in Tokens : cli[1].session.subs[tok].on /\ cli[1].subscriptions[tok].on

C10_DrainBoundedByTimeout ==
    Len(sub.order) >= 2 =>
        /\ sub.phase = "draining" => sub.now <= sub.timeout
        /\ sub.phase = "returned" =>
              /\ sub.doneAt <= sub.timeout
              /\ sub.result = "ok" \/ sub.doneAt >= sub.timeout

\* C11 as stated (SpecHeartBeat): the remaining time of an enabled direction
\* is never negative, and a tick of the client timer that finds no frame sent
\* for the client window (800 ms) sends exactly one heart-beat, notes it as
\* sent and arms the timer for the whole period (1000 ms).
C11_RearmsFullPeriod ==
    [][LET h == lis.hb
           g == lis'.hb
       IN  (g # h /\ g.last = "client" /\ h.now - h.lastSent >= ClientWindow) =>
              /\ g.sent = h.sent + 1
              /\ g.lastSent = h.now
              /\ g.heartBeats["client"] = h.now + HeartBeatPeriod
      ]_vars

\* C11 as amended (SpecHeartBeat): the remaining time of an enabled direction
\* is never negative; a tick of the client timer that finds no frame sent for
\* the client window (threshold x period, 800 ms) sends exactly one heart-beat,
\* notes it as sent and arms the timer for the client window again (800 ms);
\* a tick that finds a later frame sends nothing and arms the timer for what
\* remains of the window.
C11_OutboundHeartBeat ==
    [][LET h == lis.hb
           g == lis'.hb
       IN  /\ \A w \in Which : g.heartBeat[w] > 0 => beatRemaining(g, w) >= 0
           /\ (g # h /\ g.last = "client") =>
                 IF h.now - h.lastSent >= ClientWindow
                 THEN /\ g.sent = h.sent + 1
                      /\ g.lastSent = h.now
                      /\ g.heartBeats["client"] = h.now + ClientWindow
                 ELSE /\ g.sent = h.sent
                      /\ g.lastSent = h.lastSent
                      /\ g.heartBeats["client"] = h.lastSent + ClientWindow
           /\ g.sent # h.sent => g.last = "client"
      ]_vars

\* C11 witness: a second heart-beat was sent, one client window after the
\* first.
C11_Witness ==
    /\ lis.hb.last = "client" /\ lis.hb.sent = 2
    /\ lis.hb.now = 2 * ClientWindow
    /\ lis.hb.heartBeats["client"] = lis.hb.now + ClientWindow

\* C12 (SpecHeartBeat): a tick of the server timer that finds no frame
\* received for the server window (2000 ms) calls disconnect with the
\* heart-beat timeout and does not arm the timer again; this happens at most
\* once, the clock cannot pass the end of the window without it, and a tick
\* that finds a frame received within the window calls no disconnect.
C12_InboundWatchdog ==
    [][LET h == lis.hb
           g == lis'.hb
       IN  /\ (g # h /\ g.last = "server") =>
                 IF h.now - h.lastReceived >= ServerWindow
                 THEN /\ g.disconnects = h.disconnects + 1
                      /\ g.heartBeats["server"] = NoBeat
                 ELSE /\ g.disconnects = h.disconnects
                      /\ g.heartBeats["server"] = h.lastReceived + ServerWindow
           /\ g.disconnects # h.disconnects =>
                 /\ g.last = "server" /\ h.disconnects = 0
                 /\ h.now - h.lastReceived >= ServerWindow
           /\ (h.connected /\ h.heartBeat["server"] > 0 /\ h.disconnects = 0) =>
                 /\ h.heartBeats["server"] # NoBeat
                 /\ h.now - h.lastReceived <= ServerWindow
           /\ h.disconnects > 0 => g.heartBeats["server"] = NoBeat
      ]_vars

\* C12 witness: a frame was received after the connect, then none for the
\* server window, and the disconnect was called.
C12_Witness ==
    /\ lis.hb.last = "server" /\ lis.hb.disconnects = 1
    /\ lis.hb.lastReceived > 0
    /\ lis.hb.now = lis.hb.lastReceived + ServerWindow
    /\ lis.hb.connected

\* The reasons other than None that onDisconnect was called with.
Failed(d) == {i \in 1..Len(d.asked) : d.asked[i] # "none"}

\* The first reason other than None that onDisconnect was called with.
FirstFailure(d) == d.asked[CHOOSE i \in Failed(d) : \A j \in Failed(d) : i <= j]

\* C13 (SpecDisconnectListener): connection.disconnected is fired exactly
\* once, at the connection loss and not before; it succeeds if and only if
\* onDisconnect had been called and never with a failure; otherwise it fails,
\* with the first failure onDisconnect was called with, or with the
\* unexpected-loss error when onDisconnect had not been called.
C13_DisconnectedOnce ==
    LET d == lis.dl
    IN  /\ d.fired <= 1
        /\ d.fired = 1 <=> d.last = "onConnectionLost"
        /\ d.fired = 0 => d.disconnected \in {"none", "pending"}
        /\ d.fired = 1 =>
              /\ d.disconnected = "ok" <=> (Len(d.asked) > 0 /\ Failed(d) = {})
              /\ d.disconnected # "ok" =>
                    d.disconnected = IF Len(d.asked) = 0 THEN UnexpectedLoss
                                     ELSE FirstFailure(d)

\* C15 (SpecDisconnectListener): once onDisconnect has been called with a
\* failure r, the recorded failure stays r whatever onDisconnect is called
\* with later, and connection.disconnected fails with r at the loss.
C15_FirstFailureKept ==
    LET d == lis.dl
    IN  Failed(d) # {} =>
          /\ d.disconnectReason = FirstFailure(d)
          /\ d.fired = 1 => d.disconnected = FirstFailure(d)

\* C16 (SpecDisconnectListener): at the connection loss the session is closed,
\* and the replay log is dropped if and only if no failure was recorded: it
\* is kept when onDisconnect had not been called or had been called with a
\* failure, and dropped when onDisconnect had been called without failure
\* only.
C16_FlushIffClean ==
    LET d == lis.dl
    IN  /\ d.closed <=> d.last = "onConnectionLost"
        /\ ~d.closed => d.replayLog
        /\ d.closed =>
              (~d.replayLog <=> (Len(d.asked) > 0 /\ Failed(d) = {}))

\* C14 (SpecSubscriptionListener): the first onSubscribe for this listener
\* captures the headers of its frame, with the default ack mode if the frame
\* has none; every later onSubscribe, for this listener with whatever headers
\* or for another context, leaves the captured headers and their ack mode as
\* they are.
C14_HeadersCapturedOnce ==
    [][LET l == lis.sl
           m == lis'.sl
       IN  m # l =>
             /\ l.headers # NoFrame =>
                   /\ m.headers = l.headers
                   /\ capturedAck(m) = capturedAck(l)
             /\ m.last = "onSubscribeOther" => m.headers = l.headers
             /\ (m.last = "onSubscribe" /\ l.headers = NoFrame) =>
                   /\ m.headers = m.nframes
                   /\ capturedAck(m) \in FrameAckHeaders \ {"absent"}
      ]_vars

\* C14 witness: the listener captured the headers of a first frame with ack
\* mode auto and was then told of a second frame for it with ack mode client.
C14_Witness ==
    /\ lis.sl.last = "onSubscribe" /\ lis.sl.nframes = 2
    /\ lis.sl.frames[1] = "auto" /\ lis.sl.frames[2] = "client"
    /\ lis.sl.headers = 1 /\ capturedAck(lis.sl) = "auto"

\* The message whose handler returns in the step from s to t.
Returning(s, t) ==
    CHOOSE m \in Msgs : s.handlers[m].st = "running" /\ t.handlers[m].st # "running"

\* The step from s to t is the return of a message handler.
HandlerReturns(s, t) ==
    /\ t # s /\ t.last \in HandlerTags
    /\ \E m \in Msgs : s.handlers[m].st = "running" /\ t.handlers[m].st # "running"

\* The except clause of _onMessage is entered: the handler has failed, or
\* the ACK that follows a handler that succeeded cannot be sent.
EntersExcept(s, t) ==
    \/ t.last \in {"handlerFailed", "handlerFailed/hookRaises"}
    \/ s.handlers[Returning(s, t)].ack /\ ~s.protocol

\* The failure hook raises: a hook given to the constructor does, or the
\* default one cannot send to the error destination.
HookRaises(s, t) ==
    /\ EntersExcept(s, t)
    /\ IF s.customHook
       THEN t.last \in {"handlerOk/hookRaises", "handlerFailed/hookRaises"}
       ELSE s.handlers[Returning(s, t)].errDest /\ ~s.protocol

HookError(s) == IF s.customHook THEN "HookError" ELSE "NotConnected"

\* C17 as stated (SpecFrames): when a message handler has failed, a
\* disconnect with the error of the hook as its failure is started by the
\* step if and only if the failure hook raises.
C17_HookFailureStartsDisconnect ==
    [][LET s == cli[1]
           t == cli'[1]
       IN  (HandlerReturns(s, t) /\ EntersExcept(s, t)) =>
              (HookRaises(s, t) <=>
                 /\ ~s.disconnectRunning /\ t.disconnectRunning
                 /\ t.reason = HookError(s))
      ]_vars

\* C17 as amended (SpecFrames): the failure of a message handler is passed to
\* the failure hook; when the hook returns, no disconnect is started and the
\* transport is left as it is, unless this was the last handler a disconnect
\* in progress was waiting for; when the hook raises, disconnect is called
\* with that error, which starts a disconnect with that failure if a protocol
\* is stored and no disconnect is running, and is refused otherwise. No other
\* return of a handler starts a disconnect.
C17_HandlerFailure ==
    [][LET s == cli[1]
           t == cli'[1]
           started == ~s.disconnectRunning /\ t.disconnectRunning
       IN  HandlerReturns(s, t) =>
             /\ started => HookRaises(s, t) /\ t.reason = HookError(s)
             /\ HookRaises(s, t) =>
                   IF s.protocol /\ ~s.disconnectRunning
                   THEN started /\ t.reason = HookError(s) /\ t.disconnecting
                   ELSE /\ ~started /\ t.reason = s.reason
                        /\ t.res = IF s.disconnectRunning THEN "AlreadyRunning" ELSE "ok"
                        /\ t.disconnectResult = IF s.disconnectRunning THEN s.disconnectResult
                                                 ELSE "NotConnected"
             /\ (EntersExcept(s, t) /\ ~HookRaises(s, t)) =>
                   /\ ~started /\ t.reason = s.reason
                   /\ t.protocol = s.protocol
                   /\ ~s.disconnecting => t.transport = s.transport
      ]_vars

\* C17 witness: a handler has failed on an established connection, the hook
\* given to the constructor has raised, and the disconnect started for it is
\* closing the transport.
C17_Witness ==
    /\ cli[1].last = "handlerFailed/hookRaises" /\ cli[1].customHook
    /\ cli[1].disconnectRunning /\ cli[1].reason = "HookError"
    /\ cli[1].transport = "closing"

\* C19 (SpecFrames): the marker of a message whose handler was started is
\* cleared by the return of the handler, once, whatever the outcome, and at
\* no other time; the handlers outstanding are those started and not cleared.
C19_MarkerClearedOnce ==
    [][LET s == cli[1]
           t == cli'[1]
       IN  /\ \A m \in Msgs :
                 /\ t.handlers[m].cleared = IF t.handlers[m].st = "done" THEN 1 ELSE 0
                 /\ t.handlers[m].cleared # s.handlers[m].cleared =>
                       t.last \in HandlerTags /\ s.handlers[m].st = "running"
           /\ (t # s /\ t.last \in HandlerTags) =>
                 \E m \in Msgs :
                    /\ s.handlers[m].st = "running"
                    /\ t.handlers[m].st = "done" /\ t.handlers[m].cleared = 1
                    /\ \A n \in Msgs \ {m} : t.handlers[n] = s.handlers[n]
           /\ Cardinality({m \in Msgs : t.handlers[m].st = "running"}) =
                 Cardinality({m \in Msgs : t.handlers[m].st # "none"})
                   - Cardinality({m \in Msgs : t.handlers[m].cleared > 0})
      ]_vars

\* C19 witness: the hook raised for a failed handler, a disconnect was started
\* with its error, and the marker of the message is cleared.
C19_Witness ==
    /\ cli[1].last = "handlerFailed/hookRaises"
    /\ cli[1].disconnectRunning /\ cli[1].reason = "HookError"
    /\ \E m \in Msgs : cli[1].handlers[m].st = "done" /\ cli[1].handlers[m].cleared = 1
    /\ Running(cli[1]) = {}

C18_WitnessListener ==
    /\ sub.phase = "draining" /\ sub.refused # {} /\ sub.messages # {}

\* C20 as stated (SpecReceiptListener): a RECEIPT frame for a receipt id that
\* has no entry, because it was never asked for, has arrived before, or its
\* wait has timed out, raises no error and leaves the entries and the
\* outcomes of the listener as they are.
C20_AbsentReceiptIsNoOp ==
    [][\A r \in ReceiptIds :
          LET l == lis.rl
              t == lis'.rl
          IN  (/\ t # l /\ t.call.op = "onReceipt" /\ t.call.key = r
               /\ l.receipts[r].st = "absent") =>
                 /\ t.call.err = "none"
                 /\ t.receipts = l.receipts /\ t.outcome = l.outcome
      ]_vars

\* C25 as stated (Spec): after the handshake wait of a connect has failed, by
\* its timeout or by an ERROR frame, a CONNECTED frame that arrives late raises
\* no error in the handling of the frame, leaves the result of the connect as
\* it is, and does not mark the session as connected while no protocol is
\* stored.
C25_LateConnectedIgnored ==
    [][LET s == cli[1]
           t == cli'[1]
       IN  (/\ Handled(1, "CONNECTED")
            /\ s.signal = NoSignal /\ ~s.protocol
            /\ s.connectResult \in {Cancelled, "ProtocolError"}) =>
              /\ t.res = "ok"
              /\ t.connectResult = s.connectResult /\ t.signal = NoSignal
              /\ t.session.connected => t.protocol
      ]_vars

\* C22 as stated (SpecFrames): the handling of one MESSAGE frame, from the
\* frame to the return of its handler with the hook and all that follows,
\* hands at most one ACK frame to the transport, in every outcome.
C22_AtMostOneAck ==
    [][LET s == cli[1]
           t == cli'[1]
       IN  /\ Handled(1, "MESSAGE") => t.wire.nAck = s.wire.nAck
           /\ HandlerReturns(s, t) => t.wire.nAck <= s.wire.nAck + 1
      ]_vars

\* C23 as stated (SpecFrames): for a message of a subscription that is not
\* ack-managed (ack disabled, or ack mode auto) no ACK frame is handed to the
\* transport, whether the handler succeeds or fails and whatever the error
\* destination.
C23_NoAckUnlessManaged ==
    [][LET s == cli[1]
           t == cli'[1]
       IN  (HandlerReturns(s, t) /\ ~s.handlers[Returning(s, t)].ack) =>
              t.wire.nAck = s.wire.nAck
      ]_vars

\* C24 as stated (SpecFrames): when the handshake of a reconnect succeeds,
\* the record the replay stores for a subscription the session has kept is
\* the record the subscribe call had stored: the same error destination and
\* the same ack-managed flag.
C24_ReplayPreservesSettings ==
    [][LET s == cli[1]
           t == cli'[1]
       IN  (Handled(1, "CONNECTED") /\ s.signal # NoSignal) =>
              \A tok \in Tokens :
                 (s.session.subs[tok].on /\ s.subscriptions[tok].on) =>
                    t.subscriptions[tok] = s.subscriptions[tok]
      ]_vars

\* C21 as stated (SpecMessageListener): for a message of its own subscription
\* the listener sends exactly one ACK if the subscription is ack-managed and
\* the handler has succeeded or the hook has handled its failure, and none
\* otherwise; no ACK is sent before the handler has finished, and a message
\* of another context is neither handled nor acknowledged.
C21_AckIffHandled ==
    LET l == lis.ml
    IN  \A m \in ListenerMsgs :
           /\ l.msgs[m].st # "done" => l.msgs[m].acks = 0
           /\ l.msgs[m].st = "done" =>
                 l.msgs[m].acks =
                    IF mlAckManaged(l) /\ l.msgs[m].outcome \in {"ok", "handled"}
                    THEN 1 ELSE 0

====
